---- MODULE Spec2Model ----
(***************************************************************************)
(* wgowut: wrapper functions around the gowut GUI toolkit (package gwu).   *)
(* The state is what a client of GuiBuilder holds: the widget returned by  *)
(* the last make call, a table whose cells FormatTableCell formats, a      *)
(* panel that components are added to, the components SetEnabled is called *)
(* on, and what the last call did to the toolkit (its setter calls, in     *)
(* order) and to standard error.  Every action of Spec is one exported     *)
(* call of builder.go; SpecOrder runs the statements of setStyle one at a  *)
(* time, in any order.                                                     *)
(***************************************************************************)
EXTENDS Integers, Sequences, FiniteSets, TLC

VARIABLES
    widget,   \* the widget returned by the last make call
    table,    \* the table passed to FormatTableCell
    op,       \* name of the last call ("none" before the first)
    options,  \* the Options value of the last call
    cell,     \* <<row, col>> of the last FormatTableCell call
    pre,      \* the target of the last call as it was before options were applied
    calls,    \* toolkit setter calls made by the last call, in order
    stderr,   \* what the last call wrote to os.Stderr
    repeat,   \* the last call had the same target and Options as the one before
    nfmt,     \* FormatTableCell calls made on the table so far
    panel,    \* the panel passed to AddLabelsToPanel and AddCompsToPanel
    held,     \* the components the client holds and passes to SetEnabled
    args,     \* the other arguments of the last call
    done,     \* SpecOrder: the statements of setStyle executed so far
    inOrder,  \* SpecOrder: they were executed in the order of the source
    made      \* SpecCalls: the make calls so far, each with the widget it returned

vars == <<widget, table, op, options, cell, pre, calls, stderr, repeat, nfmt,
          panel, held, args, done, inOrder, made>>

(***************************************************************************)
(* Bounds.                                                                 *)
(***************************************************************************)
MaxFormats == 2
\* Components a panel holds at most.
MaxComps == 3
\* Calls in a behaviour of SpecCalls at most.
MaxCalls == 3

(***************************************************************************)
(* Constants of builder.go.                                                *)
(***************************************************************************)
FullWidth == "Full"
FullHeight == "Full"

EnableNil == 0
EnableTrue == 1
EnableFalse == 2

LayoutNil == 0
LayoutNatural == 1
LayoutHorizontal == 2
LayoutVertical == 3

BorderError == "\nError: Setting a border requires style and width.\n"

\* The zero value of the Options struct.
ZeroOptions ==
    [Rows |-> 0, Cols |-> 0, CellPadding |-> 0, HAlign |-> "", VAlign |-> "",
     WhiteSpace |-> "", BorderWidth |-> 0, BorderStyle |-> "", BorderColor |-> "",
     Layout |-> LayoutNil, Multi |-> FALSE, Width |-> "", Height |-> "",
     FontSize |-> "", Color |-> "", Background |-> "", ColSpan |-> 0,
     RowSpan |-> 0, Enable |-> EnableNil, ReadOnly |-> FALSE]

(***************************************************************************)
(* strconv.Itoa and the "%d" verb: the decimal text of an integer.         *)
(***************************************************************************)
Digit(d) ==
    CASE d = 0 -> "0" [] d = 1 -> "1" [] d = 2 -> "2" [] d = 3 -> "3"
      [] d = 4 -> "4" [] d = 5 -> "5" [] d = 6 -> "6" [] d = 7 -> "7"
      [] d = 8 -> "8" [] d = 9 -> "9"

RECURSIVE Itoa(_)
Itoa(n) ==
    IF n < 0 THEN "-" \o Itoa(-n)
    ELSE IF n < 10 THEN Digit(n)
    ELSE Itoa(n \div 10) \o Digit(n % 10)

(***************************************************************************)
(* The toolkit, as builder.go and its tests use it.  A style is a set of   *)
(* named attributes; a setter stores its argument, a getter returns the    *)
(* value last stored, "" when there is none.  A context is the object a    *)
(* call works on together with the setter calls and diagnostics so far.    *)
(***************************************************************************)
NewStyle ==
    [border |-> "", width |-> "", height |-> "", color |-> "", background |-> "",
     whiteSpace |-> "", fontSize |-> "", padding |-> ""]

Ctx(obj) == [obj |-> obj, calls |-> <<>>, stderr |-> <<>>]

Call(ctx, name, arg) == [ctx EXCEPT !.calls = Append(@, <<name, arg>>)]

StyleSet(ctx, attr, value) == [ctx EXCEPT !.obj.style[attr] = value]

\* SetBorder2 stores the border as "<width>px <style> <color>".
BorderText(width, style, color) == Itoa(width) \o "px " \o style \o " " \o color

SetBorder2(ctx, width, style, color) ==
    Call(StyleSet(ctx, "border", BorderText(width, style, color)),
         "SetBorder2", BorderText(width, style, color))

SetFullWidth(ctx) == Call(StyleSet(ctx, "width", "100%"), "SetFullWidth", "")

SetWidth(ctx, v) == Call(StyleSet(ctx, "width", v), "SetWidth", v)

SetFullHeight(ctx) == Call(StyleSet(ctx, "height", "100%"), "SetFullHeight", "")

SetHeight(ctx, v) == Call(StyleSet(ctx, "height", v), "SetHeight", v)

SetColor(ctx, v) == Call(StyleSet(ctx, "color", v), "SetColor", v)

SetBackground(ctx, v) == Call(StyleSet(ctx, "background", v), "SetBackground", v)

SetWhiteSpace(ctx, v) == Call(StyleSet(ctx, "whiteSpace", v), "SetWhiteSpace", v)

SetFontSize(ctx, v) == Call(StyleSet(ctx, "fontSize", v), "SetFontSize", v)

SetPadding(ctx, v) == Call(StyleSet(ctx, "padding", v), "SetPadding", v)

Fprintf(ctx, text) == [ctx EXCEPT !.stderr = Append(@, text)]

(***************************************************************************)
(* strings.EqualFold on the size strings: equal letter by letter once      *)
(* upper and lower case are folded together.                               *)
(***************************************************************************)
\* The characters of the strings that are compared.
Letters(s) ==
    CASE s = "" -> <<>>
      [] s = "1" -> <<"1">>
      [] s = "Full" -> <<"F", "u", "l", "l">>
      [] s = "full" -> <<"f", "u", "l", "l">>
      [] s = "FULL" -> <<"F", "U", "L", "L">>
      [] s = "Fool" -> <<"F", "o", "o", "l">>
      [] s = "100%" -> <<"1", "0", "0", "%">>
      [] OTHER -> <<s>>

ToLower(c) ==
    CASE c = "F" -> "f"
      [] c = "U" -> "u"
      [] c = "L" -> "l"
      [] OTHER -> c

EqualFold(s, t) ==
    /\ Len(Letters(s)) = Len(Letters(t))
    /\ \A i \in DOMAIN Letters(s) : ToLower(Letters(s)[i]) = ToLower(Letters(t)[i])

(***************************************************************************)
(* setStyle, one operator per statement of its body.                       *)
(***************************************************************************)
\* StepBorder, were a border color required as well.
StepBorderNeedsColor(ctx, o) ==
    IF o.BorderWidth # 0 \/ o.BorderStyle # "" \/ o.BorderColor # ""
    THEN IF o.BorderWidth # 0 /\ o.BorderStyle # "" /\ o.BorderColor # ""
         THEN SetBorder2(ctx, o.BorderWidth, o.BorderStyle, o.BorderColor)
         ELSE Fprintf(ctx, BorderError)
    ELSE ctx

\* StepBorder, were BorderColor left out of the outer condition.
StepBorderIgnoreColor(ctx, o) ==
    IF o.BorderWidth # 0 \/ o.BorderStyle # ""
    THEN IF o.BorderWidth # 0 /\ o.BorderStyle # ""
         THEN SetBorder2(ctx, o.BorderWidth, o.BorderStyle, o.BorderColor)
         ELSE Fprintf(ctx, BorderError)
    ELSE ctx

StepBorder(ctx, o) ==
    IF o.BorderWidth # 0 \/ o.BorderStyle # "" \/ o.BorderColor # ""
    THEN IF o.BorderWidth # 0 /\ o.BorderStyle # ""
         THEN SetBorder2(ctx, o.BorderWidth, o.BorderStyle, o.BorderColor)
         ELSE Fprintf(ctx, BorderError)
    ELSE ctx

\* StepWidth, were the two axes decided in one if / else-if chain that
\* forgets the width in the branch for a full height.
\* StepWidth, were the token matched as the earlier revision matched it.
StepWidthFold(ctx, o) ==
    IF EqualFold(o.Width, FullWidth) THEN SetFullWidth(ctx)
    ELSE IF o.Width # "" THEN SetWidth(ctx, o.Width)
    ELSE ctx

StepWidthChained(ctx, o) ==
    IF o.Width = FullWidth THEN SetFullWidth(ctx)
    ELSE IF o.Height = FullHeight THEN ctx
    ELSE IF o.Width # "" THEN SetWidth(ctx, o.Width)
    ELSE ctx

StepWidth(ctx, o) ==
    IF o.Width = FullWidth THEN SetFullWidth(ctx)
    ELSE IF o.Width # "" THEN SetWidth(ctx, o.Width)
    ELSE ctx

StepHeight(ctx, o) ==
    LET c1 == IF o.Height = FullHeight THEN SetFullHeight(ctx) ELSE ctx
    IN  IF o.Height # "" THEN SetFullHeight(c1) ELSE c1

\* StepColor, were the setter called only for a non-empty Color.
StepColorIfSet(ctx, o) == IF o.Color # "" THEN SetColor(ctx, o.Color) ELSE ctx

StepColor(ctx, o) == SetColor(ctx, o.Color)

\* StepBackground, were an unset Background to take the style's color.
StepBackgroundFromColor(ctx, o) ==
    SetBackground(ctx, IF o.Background = "" THEN ctx.obj.style.color ELSE o.Background)

StepBackground(ctx, o) == SetBackground(ctx, o.Background)

StepWhiteSpace(ctx, o) == SetWhiteSpace(ctx, o.WhiteSpace)

StepFontSize(ctx, o) == SetFontSize(ctx, o.FontSize)

\* setStyle, were it to return right after the border diagnostic.
setStyleReturnOnError(ctx, o) ==
    IF StepBorder(ctx, o).stderr # ctx.stderr
    THEN StepBorder(ctx, o)
    ELSE StepFontSize(StepWhiteSpace(StepBackground(StepColor(
             StepHeight(StepWidth(StepBorder(ctx, o), o), o), o), o), o), o)

setStyle(ctx, o) ==
    StepFontSize(StepWhiteSpace(StepBackground(StepColor(
        StepHeight(StepWidth(StepBorder(ctx, o), o), o), o), o), o), o)

\* Style.SetSize of the toolkit: both sizes are set.
SetSize(ctx, w, h) == SetHeight(SetWidth(ctx, w), h)

\* The sizing statement of the earlier revision, the same in each function that sizes.
OldSizing(ctx, o) ==
    IF EqualFold(o.Width, "Full") /\ EqualFold(o.Height, "Full")
    THEN SetFullHeight(SetFullWidth(ctx))
    ELSE IF EqualFold(o.Width, "Full") THEN SetHeight(SetFullWidth(ctx), o.Height)
    ELSE IF EqualFold(o.Height, "Full") THEN SetWidth(SetFullHeight(ctx), o.Width)
    ELSE SetSize(ctx, o.Width, o.Height)

\* The sizing statements of the current revision.
Sizing(ctx, o) == StepHeight(StepWidth(ctx, o), o)

\* The statements of setStyle by name, and their place in the source.
StyleSteps == {"border", "width", "height", "color", "background", "whiteSpace", "fontSize"}

StepOrder == <<"border", "width", "height", "color", "background", "whiteSpace", "fontSize">>

Place(step) == CHOOSE i \in DOMAIN StepOrder : StepOrder[i] = step

RunStep(step, ctx, o) ==
    CASE step = "border" -> StepBorder(ctx, o)
      [] step = "width" -> StepWidth(ctx, o)
      [] step = "height" -> StepHeight(ctx, o)
      [] step = "color" -> StepColor(ctx, o)
      [] step = "background" -> StepBackground(ctx, o)
      [] step = "whiteSpace" -> StepWhiteSpace(ctx, o)
      [] step = "fontSize" -> StepFontSize(ctx, o)

(***************************************************************************)
(* Toolkit components and their constructors.                              *)
(***************************************************************************)
NoWidget == [kind |-> "none"]

NewCellFmt ==
    [kind |-> "CellFmt", style |-> NewStyle, hAlign |-> "", vAlign |-> "", colSpan |-> -1, rowSpan |-> -1]

\* The cells of the table that FormatTableCell is called on.
Cells == {<<1, 1>>, <<1, 2>>}

NewTable ==
    [kind |-> "Table", style |-> NewStyle, cellPadding |-> 0, hAlign |-> "", vAlign |-> "",
     size |-> <<0, 0>>, cells |-> [c \in Cells |-> NewCellFmt]]

NewListBox(values) ==
    [kind |-> "ListBox", style |-> NewStyle, values |-> values, rows |-> 1, multi |-> FALSE,
     selected |-> {}, enabled |-> TRUE]

NewTextBox(text) ==
    [kind |-> "TextBox", style |-> NewStyle, text |-> text, rows |-> 1, cols |-> 20,
     enabled |-> TRUE, readOnly |-> FALSE]

NewLabel(text) == [kind |-> "Label", style |-> NewStyle, text |-> text]

NewButton(text) == [kind |-> "Button", style |-> NewStyle, text |-> text]

NewPanel ==
    [kind |-> "Panel", style |-> NewStyle, cellPadding |-> 0, hAlign |-> "", vAlign |-> "",
     layout |-> "vertical", comps |-> <<>>]

NewNaturalPanel == [NewPanel EXCEPT !.layout = "natural"]

NewHorizontalPanel == [NewPanel EXCEPT !.layout = "horizontal"]

NewVerticalPanel == [NewPanel EXCEPT !.layout = "vertical"]

NewWindow(name, text) ==
    [kind |-> "Window", style |-> NewStyle, cellPadding |-> 0, hAlign |-> "", vAlign |-> "",
     layout |-> "vertical", comps |-> <<>>, name |-> name, text |-> text]

NewTabPanel ==
    [kind |-> "TabPanel", style |-> NewStyle, cellPadding |-> 0, hAlign |-> "", vAlign |-> "",
     layout |-> "vertical", comps |-> <<>>]

Max(a, b) == IF a > b THEN a ELSE b

EnsureSize(ctx, rows, cols) ==
    Call([ctx EXCEPT !.obj.size = <<Max(@[1], rows), Max(@[2], cols)>>],
         "EnsureSize", Itoa(rows) \o "," \o Itoa(cols))

SetCellPadding(ctx, n) == Call([ctx EXCEPT !.obj.cellPadding = n], "SetCellPadding", Itoa(n))

SetHAlign(ctx, v) == Call([ctx EXCEPT !.obj.hAlign = v], "SetHAlign", v)

SetVAlign(ctx, v) == Call([ctx EXCEPT !.obj.vAlign = v], "SetVAlign", v)

\* A span below 2 removes the attribute, and the getter then returns -1.
SpanAttr(n) == IF n < 2 THEN -1 ELSE n

SetColSpan(ctx, n) == Call([ctx EXCEPT !.obj.colSpan = SpanAttr(n)], "SetColSpan", Itoa(n))

SetRowSpan(ctx, n) == Call([ctx EXCEPT !.obj.rowSpan = SpanAttr(n)], "SetRowSpan", Itoa(n))

SetRows(ctx, n) == Call([ctx EXCEPT !.obj.rows = n], "SetRows", Itoa(n))

SetCols(ctx, n) == Call([ctx EXCEPT !.obj.cols = n], "SetCols", Itoa(n))

SetMulti(ctx, b) == Call([ctx EXCEPT !.obj.multi = b], "SetMulti", IF b THEN "true" ELSE "false")

SetSelected(ctx, i, b) ==
    Call([ctx EXCEPT !.obj.selected = IF b THEN @ \cup {i} ELSE @ \ {i}],
         "SetSelected", Itoa(i))

SetEnabled(ctx, b) ==
    Call([ctx EXCEPT !.obj.enabled = b], "SetEnabled", IF b THEN "true" ELSE "false")

SetReadOnly(ctx, b) ==
    Call([ctx EXCEPT !.obj.readOnly = b], "SetReadOnly", IF b THEN "true" ELSE "false")

\* Panel.Add: the component becomes the panel's last one.
Add(ctx, c) == Call([ctx EXCEPT !.obj.comps = Append(@, c)], "Add", c.kind)

SetLayout(ctx, l) == Call([ctx EXCEPT !.obj.layout = l], "SetLayout", l)

(***************************************************************************)
(* The exported functions of builder.go.  Each takes the context of the    *)
(* object it has just constructed (or, for FormatTableCell, of the cell)   *)
(* and returns the context after its last statement.                       *)
(***************************************************************************)
\* ApplyAlign, were the alignments forwarded unconditionally.
ApplyAlignAlways(ctx, o) == SetVAlign(SetHAlign(ctx, o.HAlign), o.VAlign)

ApplyAlign(ctx, o) ==
    LET c1 == IF o.HAlign # "" THEN SetHAlign(ctx, o.HAlign) ELSE ctx
    IN  IF o.VAlign # "" THEN SetVAlign(c1, o.VAlign) ELSE c1

\* ApplyEnable, were Enable read as a boolean.
ApplyEnableBool(ctx, o) == SetEnabled(ctx, o.Enable = EnableTrue)

ApplyEnable(ctx, o) ==
    CASE o.Enable = EnableTrue -> SetEnabled(ctx, TRUE)
      [] o.Enable = EnableFalse -> SetEnabled(ctx, FALSE)
      [] OTHER -> ctx

MakeTable(o) ==
    setStyle(ApplyAlign(SetCellPadding(EnsureSize(Ctx(NewTable), o.Rows, o.Cols),
                                       o.CellPadding), o), o)

\* FormatTableCell, were the padding added to the one the cell has.
FormatTableCellAddPadding(fmt, o) ==
    LET c1 == SetPadding(Ctx(fmt), fmt.style.padding \o Itoa(o.CellPadding))
        c2 == ApplyAlign(c1, o)
        c3 == SetColSpan(c2, o.ColSpan)
        c4 == SetRowSpan(c3, o.RowSpan)
    IN  setStyle(c4, o)

\* FormatTableCell, were the spans set only when they are not zero.
FormatTableCellSpanIfSet(fmt, o) ==
    LET c1 == SetPadding(Ctx(fmt), Itoa(o.CellPadding))
        c2 == ApplyAlign(c1, o)
        c3 == IF o.ColSpan # 0 THEN SetColSpan(c2, o.ColSpan) ELSE c2
        c4 == IF o.RowSpan # 0 THEN SetRowSpan(c3, o.RowSpan) ELSE c3
    IN  setStyle(c4, o)

\* FormatTableCell, were the padding set only when CellPadding is not zero.
FormatTableCellPaddingIfSet(fmt, o) ==
    LET c0 == Ctx(fmt)
        c1 == IF o.CellPadding # 0 THEN SetPadding(c0, Itoa(o.CellPadding)) ELSE c0
        c2 == ApplyAlign(c1, o)
        c3 == SetColSpan(c2, o.ColSpan)
        c4 == SetRowSpan(c3, o.RowSpan)
    IN  setStyle(c4, o)

FormatTableCell(fmt, o) ==
    LET c1 == SetPadding(Ctx(fmt), Itoa(o.CellPadding))
        c2 == ApplyAlign(c1, o)
        c3 == SetColSpan(c2, o.ColSpan)
        c4 == SetRowSpan(c3, o.RowSpan)
    IN  setStyle(c4, o)

\* MakeListBox, were the first value selected without looking at the input.
MakeListBoxSelectFirst(values, o) ==
    LET c1 == SetRows(Ctx(NewListBox(values)), o.Rows)
        c2 == IF o.Multi THEN SetMulti(c1, TRUE) ELSE c1
        c3 == SetSelected(c2, 0, TRUE)
    IN  setStyle(ApplyEnable(c3, o), o)

MakeListBox(values, o) ==
    LET c1 == SetRows(Ctx(NewListBox(values)), o.Rows)
        c2 == IF o.Multi THEN SetMulti(c1, TRUE) ELSE c1
        c3 == IF Len(values) # 0 THEN SetSelected(c2, 0, TRUE) ELSE c2
    IN  setStyle(ApplyEnable(c3, o), o)

\* MakeTextBox, were a disabled text box made read-only as well.
MakeTextBoxReadOnlyIfDisabled(text, o) ==
    LET c0 == Ctx(NewTextBox(text))
        c1 == IF o.Rows # 0 THEN SetRows(c0, o.Rows) ELSE c0
        c2 == IF o.Cols # 0 THEN SetCols(c1, o.Cols) ELSE c1
    IN  setStyle(SetReadOnly(ApplyEnable(c2, o), o.ReadOnly \/ o.Enable = EnableFalse), o)

\* MakeTextBox, were Rows and Cols forwarded unconditionally.
MakeTextBoxAlwaysRows(text, o) ==
    LET c1 == SetRows(Ctx(NewTextBox(text)), o.Rows)
        c2 == SetCols(c1, o.Cols)
    IN  setStyle(SetReadOnly(ApplyEnable(c2, o), o.ReadOnly), o)

MakeTextBox(text, o) ==
    LET c0 == Ctx(NewTextBox(text))
        c1 == IF o.Rows # 0 THEN SetRows(c0, o.Rows) ELSE c0
        c2 == IF o.Cols # 0 THEN SetCols(c1, o.Cols) ELSE c1
    IN  setStyle(SetReadOnly(ApplyEnable(c2, o), o.ReadOnly), o)

\* MakeLabel, were the builder to keep the last label and hand it out again.
MakeLabelReusing(text, o) ==
    setStyle(Ctx(IF widget.kind = "Label" THEN [widget EXCEPT !.text = text]
                 ELSE NewLabel(text)), o)

MakeLabel(text, o) == setStyle(Ctx(NewLabel(text)), o)

MakeButton(text, o) == setStyle(Ctx(NewButton(text)), o)

MakeWindow(name, extension, o) ==
    setStyle(ApplyAlign(SetCellPadding(Ctx(NewWindow(name, extension)), o.CellPadding), o), o)

\* PanelFor, were every Layout but LayoutNil to select a constructor.
PanelForOtherNatural(o) ==
    CASE o.Layout = LayoutHorizontal -> NewHorizontalPanel
      [] o.Layout = LayoutVertical -> NewVerticalPanel
      [] o.Layout = LayoutNil -> NewPanel
      [] OTHER -> NewNaturalPanel

\* PanelFor, were the horizontal and vertical constructors swapped.
PanelForSwapped(o) ==
    CASE o.Layout = LayoutNatural -> NewNaturalPanel
      [] o.Layout = LayoutHorizontal -> NewVerticalPanel
      [] o.Layout = LayoutVertical -> NewHorizontalPanel
      [] OTHER -> NewPanel

PanelFor(o) ==
    CASE o.Layout = LayoutNatural -> NewNaturalPanel
      [] o.Layout = LayoutHorizontal -> NewHorizontalPanel
      [] o.Layout = LayoutVertical -> NewVerticalPanel
      [] OTHER -> NewPanel

MakePanel(o) ==
    setStyle(ApplyAlign(SetCellPadding(Ctx(PanelFor(o)), o.CellPadding), o), o)

MakeTabPanel(o) ==
    LET c0 == Ctx(NewTabPanel)
        c1 == CASE o.Layout = LayoutNatural -> SetLayout(c0, "natural")
                [] o.Layout = LayoutHorizontal -> SetLayout(c0, "horizontal")
                [] o.Layout = LayoutVertical -> SetLayout(c0, "vertical")
                [] OTHER -> c0
    IN  setStyle(ApplyAlign(SetCellPadding(c1, o.CellPadding), o), o)

\* FormatTableCellAt, were the table's cell padding set along with the cell's.
FormatTableCellAtPadsTable(t, rc, o) ==
    LET c == FormatTableCell(t.cells[rc], o)
    IN  [c EXCEPT !.obj = [t EXCEPT !.cells[rc] = c.obj, !.cellPadding = o.CellPadding]]

\* FormatTableCell with its table: every statement goes through
\* table.CellFmt(row, col) or names (row, col), so one cell is written.
FormatTableCellAt(t, rc, o) ==
    LET c == FormatTableCell(t.cells[rc], o)
    IN  [c EXCEPT !.obj = [t EXCEPT !.cells[rc] = c.obj]]

RECURSIVE AddLabelsToPanelLastFirst(_, _, _)
\* AddLabelsToPanel, were the texts taken from the last to the first.
AddLabelsToPanelLastFirst(ctx, o, labelText) ==
    IF labelText = <<>> THEN ctx
    ELSE LET n == Len(labelText)
             label == MakeLabel(labelText[n], o)
             c1 == [ctx EXCEPT !.calls = @ \o label.calls, !.stderr = @ \o label.stderr]
         IN  AddLabelsToPanelLastFirst(Add(c1, label.obj), o, SubSeq(labelText, 1, n - 1))

RECURSIVE AddLabelsToPanel(_, _, _)
\* ctx.obj is the panel; the calls and diagnostics of every MakeLabel are kept.
AddLabelsToPanel(ctx, o, labelText) ==
    IF labelText = <<>> THEN ctx
    ELSE LET label == MakeLabel(Head(labelText), o)
             c1 == [ctx EXCEPT !.calls = @ \o label.calls, !.stderr = @ \o label.stderr]
         IN  AddLabelsToPanel(Add(c1, label.obj), o, Tail(labelText))

RECURSIVE AddCompsToPanel(_, _)
AddCompsToPanel(ctx, comps) ==
    IF comps = <<>> THEN ctx
    ELSE AddCompsToPanel(Add(ctx, Head(comps)), Tail(comps))

\* GuiBuilder.SetEnabled, were the loop left after the first component.
BuilderSetEnabledFirstOnly(ctx, enable, ids) ==
    IF ids = <<>> THEN ctx
    ELSE LET c == SetEnabled([ctx EXCEPT !.obj = ctx.obj[Head(ids)]], enable)
         IN  [c EXCEPT !.obj = [ctx.obj EXCEPT ![Head(ids)] = c.obj]]

RECURSIVE BuilderSetEnabled(_, _, _)
\* GuiBuilder.SetEnabled.  ctx.obj is the sequence of the components the client
\* holds, and ids names the ones passed as comps, in order.
BuilderSetEnabled(ctx, enable, ids) ==
    IF ids = <<>> THEN ctx
    ELSE LET c == SetEnabled([ctx EXCEPT !.obj = ctx.obj[Head(ids)]], enable)
         IN  BuilderSetEnabled([c EXCEPT !.obj = [ctx.obj EXCEPT ![Head(ids)] = c.obj]],
                               enable, Tail(ids))

(***************************************************************************)
(* Inputs.  The option values are those of builder_test.go.                *)
(***************************************************************************)
BorderWidths == {0, 2}
BorderStyles == {"", "dotted"}
Colors == {"", "fuchsia"}
Sizes == {"", "1", "Full"}
Texts == {"", "1"}

\* Every combination of the fields setStyle reads, the other fields zero.
StyleOptions ==
    {[ZeroOptions EXCEPT !.BorderWidth = bw, !.BorderStyle = bs, !.BorderColor = bc,
                         !.Width = w, !.Height = h, !.Color = c, !.Background = b,
                         !.WhiteSpace = ws, !.FontSize = fs] :
        bw \in BorderWidths, bs \in BorderStyles, bc \in Colors, w \in Sizes, h \in Sizes,
        c \in {"", "maroon"}, b \in {"", "aqua"}, ws \in {"", "pre-wrap"}, fs \in Texts}

\* Every combination of the fields the make functions read themselves.
WidgetOptions ==
    {[ZeroOptions EXCEPT !.Rows = r, !.Cols = c, !.CellPadding = p, !.HAlign = ha,
                         !.VAlign = va, !.Layout = l, !.Multi = m, !.Enable = e,
                         !.ReadOnly = ro] :
        r \in {0, 3}, c \in {0, 3}, p \in {0, 1}, ha \in {"", "right"}, va \in {"", "bottom"},
        l \in {LayoutNil, LayoutNatural, LayoutHorizontal, LayoutVertical, 7, -1},
        m \in BOOLEAN, e \in {EnableNil, EnableTrue, EnableFalse}, ro \in BOOLEAN}

\* "set all options" of the tests, with every field of Options set.
AllOptions ==
    [Rows |-> 3, Cols |-> 3, CellPadding |-> 1, HAlign |-> "right", VAlign |-> "bottom",
     WhiteSpace |-> "pre-wrap", BorderWidth |-> 2, BorderStyle |-> "dotted",
     BorderColor |-> "fuchsia", Layout |-> LayoutHorizontal, Multi |-> TRUE, Width |-> "1",
     Height |-> "1", FontSize |-> "1", Color |-> "maroon", Background |-> "aqua",
     ColSpan |-> 2, RowSpan |-> 2, Enable |-> EnableTrue, ReadOnly |-> TRUE]

\* o with the fields setStyle reads taken from s.
WithStyle(o, s) ==
    [o EXCEPT !.BorderWidth = s.BorderWidth, !.BorderStyle = s.BorderStyle,
              !.BorderColor = s.BorderColor, !.Width = s.Width, !.Height = s.Height,
              !.Color = s.Color, !.Background = s.Background,
              !.WhiteSpace = s.WhiteSpace, !.FontSize = s.FontSize]

\* The Options values passed to the make functions.
OptionsSet ==
    StyleOptions \cup WidgetOptions
        \cup {WithStyle(AllOptions, s) : s \in StyleOptions}
        \cup {WithStyle(o, AllOptions) : o \in WidgetOptions}

\* The Options values passed to FormatTableCell: the test cases, and one field at a time.
CellOptions ==
    {ZeroOptions, AllOptions,
     [ZeroOptions EXCEPT !.Width = FullWidth, !.Height = FullHeight],
     [ZeroOptions EXCEPT !.CellPadding = 1],
     [ZeroOptions EXCEPT !.CellPadding = 10],
     [ZeroOptions EXCEPT !.HAlign = "right"],
     [ZeroOptions EXCEPT !.VAlign = "bottom"],
     [ZeroOptions EXCEPT !.WhiteSpace = "pre-wrap"],
     [ZeroOptions EXCEPT !.BorderWidth = 2],
     [ZeroOptions EXCEPT !.BorderWidth = 2, !.BorderStyle = "dotted"],
     [ZeroOptions EXCEPT !.Width = "1"],
     [ZeroOptions EXCEPT !.Height = "1"],
     [ZeroOptions EXCEPT !.FontSize = "1"],
     [ZeroOptions EXCEPT !.Color = "maroon"],
     [ZeroOptions EXCEPT !.Background = "aqua"],
     [ZeroOptions EXCEPT !.ColSpan = 2],
     [ZeroOptions EXCEPT !.RowSpan = 2]}

\* The text argument of MakeTextBox.
TextArgs == {"", "text"}

ValueLists == {<<>>, <<"hello", "world">>}

\* The Options values passed to AddLabelsToPanel, and the label texts.
LabelOptions == {ZeroOptions, AllOptions}

LabelLists ==
    {<<>>, <<"label 1">>, <<"label 2">>, <<"label 1", "label 2">>, <<"label 2", "label 1">>,
     <<"label 1", "label 1">>}

\* The components passed to AddCompsToPanel: new ones, each passed once.
CompLists ==
    {<<>>, <<NewButton("button")>>, <<NewLabel("label")>>,
     <<NewButton("button"), NewLabel("label")>>, <<NewLabel("label"), NewButton("button")>>}

\* The components passed to SetEnabled, as places in held.
IdLists == {<<>>, <<1>>, <<2>>, <<1, 2>>, <<2, 1>>, <<2, 2>>}

\* The arguments of a call that has none but its Options.
NoArgs == [labelText |-> <<>>, comps |-> <<>>, ids |-> <<>>, enable |-> FALSE]

\* The Options values and the styles the statements of setStyle are reordered on.
OrderOptions == {o \in StyleOptions : o.WhiteSpace = "" /\ o.FontSize = ""}

OrderStarts == {NewLabel("text"), MakeLabel("text", AllOptions).obj}

(***************************************************************************)
(* The state machine.  A make call constructs its own widget and reads     *)
(* nothing the client holds, so it is taken as the first call of a         *)
(* behaviour; FormatTableCell works on the client's table and may follow   *)
(* earlier FormatTableCell calls.                                          *)
(***************************************************************************)
Init ==
    /\ widget = NoWidget
    /\ table = NewTable
    /\ op = "none"
    /\ options = ZeroOptions
    /\ cell = <<1, 1>>
    /\ pre = NoWidget
    /\ calls = <<>>
    /\ stderr = <<>>
    /\ repeat = FALSE
    /\ nfmt = 0
    /\ panel = MakePanel(ZeroOptions).obj
    /\ held = <<NewTextBox("text"), NewListBox(<<"listbox">>)>>
    /\ args = NoArgs
    /\ done = {}
    /\ inOrder = TRUE
    /\ made = <<>>

\* A make call returned ctx.obj, built from the fresh component new.
Returned(name, o, new, ctx) ==
    /\ widget' = ctx.obj
    /\ op' = name
    /\ options' = o
    /\ pre' = new
    /\ calls' = ctx.calls
    /\ stderr' = ctx.stderr
    /\ UNCHANGED <<table, cell, repeat, nfmt, panel, held, args, done, inOrder, made>>

DoMakeTable ==
    /\ op = "none"
    /\ \E o \in OptionsSet : Returned("MakeTable", o, NewTable, MakeTable(o))

DoMakeListBox ==
    /\ op = "none"
    /\ \E o \in OptionsSet, v \in ValueLists :
        Returned("MakeListBox", o, NewListBox(v), MakeListBox(v, o))

DoMakeTextBox ==
    /\ op = "none"
    /\ \E o \in OptionsSet, t \in TextArgs :
        Returned("MakeTextBox", o, NewTextBox(t), MakeTextBox(t, o))

DoMakeLabel ==
    /\ op = "none"
    /\ \E o \in OptionsSet : Returned("MakeLabel", o, NewLabel("text"), MakeLabel("text", o))

DoMakeButton ==
    /\ op = "none"
    /\ \E o \in OptionsSet : Returned("MakeButton", o, NewButton("text"), MakeButton("text", o))

DoMakeWindow ==
    /\ op = "none"
    /\ \E o \in OptionsSet :
        Returned("MakeWindow", o, NewWindow("name", "extension"),
                 MakeWindow("name", "extension", o))

DoMakePanel ==
    /\ op = "none"
    /\ \E o \in OptionsSet : Returned("MakePanel", o, PanelFor(o), MakePanel(o))

DoMakeTabPanel ==
    /\ op = "none"
    /\ \E o \in OptionsSet : Returned("MakeTabPanel", o, NewTabPanel, MakeTabPanel(o))

DoFormatTableCell ==
    /\ op \in {"none", "FormatTableCell"}
    /\ nfmt < MaxFormats
    /\ \E rc \in Cells, o \in CellOptions :
        LET ctx == FormatTableCellAt(table, rc, o)
        IN  /\ table' = ctx.obj
            /\ op' = "FormatTableCell"
            /\ options' = o
            /\ cell' = rc
            /\ pre' = table.cells[rc]
            /\ calls' = ctx.calls
            /\ stderr' = ctx.stderr
            /\ repeat' = (op = "FormatTableCell" /\ rc = cell /\ o = options)
            /\ nfmt' = nfmt + 1
            /\ UNCHANGED <<widget, panel, held, args, done, inOrder, made>>

\* The panel calls follow each other on the client's panel.
DoAddLabelsToPanel ==
    /\ op \in {"none", "AddLabelsToPanel", "AddCompsToPanel"}
    /\ \E o \in LabelOptions, labelText \in LabelLists :
        /\ Len(panel.comps) + Len(labelText) <= MaxComps
        /\ LET ctx == AddLabelsToPanel(Ctx(panel), o, labelText)
           IN  /\ panel' = ctx.obj
               /\ op' = "AddLabelsToPanel"
               /\ options' = o
               /\ args' = [NoArgs EXCEPT !.labelText = labelText]
               /\ pre' = panel
               /\ calls' = ctx.calls
               /\ stderr' = ctx.stderr
               /\ UNCHANGED <<widget, table, cell, repeat, nfmt, held, done, inOrder, made>>

DoAddCompsToPanel ==
    /\ op \in {"none", "AddLabelsToPanel", "AddCompsToPanel"}
    /\ \E comps \in CompLists :
        /\ Len(panel.comps) + Len(comps) <= MaxComps
        /\ \A i \in DOMAIN comps, j \in DOMAIN panel.comps : comps[i] # panel.comps[j]
        /\ LET ctx == AddCompsToPanel(Ctx(panel), comps)
           IN  /\ panel' = ctx.obj
               /\ op' = "AddCompsToPanel"
               /\ options' = ZeroOptions
               /\ args' = [NoArgs EXCEPT !.comps = comps]
               /\ pre' = panel
               /\ calls' = ctx.calls
               /\ stderr' = ctx.stderr
               /\ UNCHANGED <<widget, table, cell, repeat, nfmt, held, done, inOrder, made>>

DoSetEnabled ==
    /\ op \in {"none", "SetEnabled"}
    /\ \E enable \in BOOLEAN, ids \in IdLists :
        LET ctx == BuilderSetEnabled(Ctx(held), enable, ids)
        IN  /\ held' = ctx.obj
            /\ op' = "SetEnabled"
            /\ options' = ZeroOptions
            /\ args' = [NoArgs EXCEPT !.ids = ids, !.enable = enable]
            /\ pre' = held
            /\ calls' = ctx.calls
            /\ stderr' = ctx.stderr
            /\ UNCHANGED <<widget, table, cell, repeat, nfmt, panel, done, inOrder, made>>

Next ==
    \/ DoMakeTable
    \/ DoMakeListBox
    \/ DoMakeTextBox
    \/ DoMakeLabel
    \/ DoMakeButton
    \/ DoMakeWindow
    \/ DoMakePanel
    \/ DoMakeTabPanel
    \/ DoFormatTableCell
    \/ DoAddLabelsToPanel
    \/ DoAddCompsToPanel
    \/ DoSetEnabled

Spec == Init /\ [][Next]_vars

(***************************************************************************)
(* setStyle with its statements taken one at a time, in any order: the     *)
(* client's style is started on, and every statement runs once.  The order *)
(* of the setter calls is not kept.                                        *)
(***************************************************************************)
DoStartStyle ==
    /\ op = "none"
    /\ \E o \in OrderOptions, start \in OrderStarts :
        /\ widget' = start
        /\ pre' = start
        /\ options' = o
        /\ op' = "setStyle"
        /\ UNCHANGED <<table, cell, calls, stderr, repeat, nfmt, panel, held, args,
                       done, inOrder, made>>

DoStyleStep ==
    /\ op = "setStyle"
    /\ \E step \in StyleSteps \ done :
        LET ctx == RunStep(step, [obj |-> widget, calls |-> <<>>, stderr |-> stderr], options)
        IN  /\ widget' = ctx.obj
            /\ stderr' = ctx.stderr
            /\ done' = done \cup {step}
            /\ inOrder' = (inOrder /\ \A d \in done : Place(d) < Place(step))
            /\ UNCHANGED <<table, op, options, cell, pre, calls, repeat, nfmt, panel,
                           held, args, made>>

NextOrder == DoStartStyle \/ DoStyleStep

SpecOrder == Init /\ [][NextOrder]_vars

(***************************************************************************)
(* What the properties below speak about.                                  *)
(***************************************************************************)
\* The object the last call configured, and its style.
Target == IF op = "FormatTableCell" THEN table.cells[cell] ELSE widget

Style == Target.style

Called ==
    op \in {"MakeTable", "MakeListBox", "MakeTextBox", "MakeLabel", "MakeButton", "MakeWindow",
            "MakePanel", "MakeTabPanel", "FormatTableCell"}

\* The last call called the toolkit setter of that name.
MadeCall(name) == \E i \in 1..Len(calls) : calls[i][1] = name

\* The last call again, on the same target as it was, with Options o.
Exec(name, p, o) ==
    CASE name = "MakeTable" -> MakeTable(o)
      [] name = "MakeListBox" -> MakeListBox(p.values, o)
      [] name = "MakeTextBox" -> MakeTextBox(p.text, o)
      [] name = "MakeLabel" -> MakeLabel(p.text, o)
      [] name = "MakeButton" -> MakeButton(p.text, o)
      [] name = "MakeWindow" -> MakeWindow(p.name, p.text, o)
      [] name = "MakePanel" -> MakePanel(o)
      [] name = "MakeTabPanel" -> MakeTabPanel(o)
      [] name = "FormatTableCell" -> FormatTableCell(p, o)

\* The attributes a client can query, without the list box's selection.
Queryable(w) == IF w.kind = "ListBox" THEN [w EXCEPT !.selected = {}] ELSE w

HalfBorder(o) == (o.BorderWidth # 0) # (o.BorderStyle # "")

\* What the toolkit's constructor gives for the kind of widget the last call made.
Fresh ==
    CASE op = "MakePanel" -> NewPanel
      [] op = "FormatTableCell" -> NewCellFmt
      [] OTHER -> pre

\* The last call had every Options field zero and worked on a fresh target.
ZeroCall == Called /\ options = ZeroOptions /\ pre = Fresh

(***************************************************************************)
(* C1 (as claimed): a call with every Options field at its zero value      *)
(* leaves every queryable attribute of the widget (or fresh cell) equal to *)
(* the value the toolkit gives a freshly constructed one.                  *)
(***************************************************************************)
C1_ZeroOptionsKeepDefaults == ZeroCall => Queryable(Target) = Queryable(Fresh)

(***************************************************************************)
(* C1 (amended): with every Options field zero the queryable attributes    *)
(* equal the fresh widget's, except that MakeListBox sets Rows to 0 and    *)
(* FormatTableCell sets the cell style's padding to "0".                   *)
(***************************************************************************)
C1_ZeroOptionsDefaultsExcept ==
    ZeroCall =>
        Queryable(Target) =
            Queryable(CASE op = "MakeListBox" -> [Fresh EXCEPT !.rows = 0]
                        [] op = "FormatTableCell" -> [Fresh EXCEPT !.style.padding = "0"]
                        [] OTHER -> Fresh)

C1_Witness ==
    /\ ZeroCall
    /\ op = "MakeListBox"
    /\ widget.values # <<>>
    /\ widget.rows = 0
    /\ widget.enabled

(***************************************************************************)
(* C2 (as claimed): each of Width and Height (when not the reserved        *)
(* token), Color, Background, WhiteSpace and FontSize that is set to a     *)
(* non-empty value is returned unchanged by the style's getter after       *)
(* setStyle, whatever the other fields hold.                               *)
(***************************************************************************)
C2_StyleRoundTrip ==
    Called =>
        /\ options.Width \notin {"", FullWidth} => Style.width = options.Width
        /\ options.Height \notin {"", FullHeight} => Style.height = options.Height
        /\ options.Color # "" => Style.color = options.Color
        /\ options.Background # "" => Style.background = options.Background
        /\ options.WhiteSpace # "" => Style.whiteSpace = options.WhiteSpace
        /\ options.FontSize # "" => Style.fontSize = options.FontSize

(***************************************************************************)
(* C3 (as claimed): for Width and Height alike, "Full" gives the full      *)
(* (100%) size on that axis, any other non-empty string is applied as the  *)
(* literal size on that axis, and an empty field makes no size call for    *)
(* that axis.                                                              *)
(***************************************************************************)
C3_SizeTokenOrLiteral ==
    Called =>
        /\ options.Width = FullWidth => Style.width = "100%"
        /\ options.Width \notin {"", FullWidth} => Style.width = options.Width
        /\ options.Width = "" => ~MadeCall("SetWidth") /\ ~MadeCall("SetFullWidth")
        /\ options.Height = FullHeight => Style.height = "100%"
        /\ options.Height \notin {"", FullHeight} => Style.height = options.Height
        /\ options.Height = "" => ~MadeCall("SetHeight") /\ ~MadeCall("SetFullHeight")

C5_BorderIffWidthAndStyle ==
    Called =>
        /\ MadeCall("SetBorder2") <=> (options.BorderWidth # 0 /\ options.BorderStyle # "")
        /\ MadeCall("SetBorder2") =>
              /\ Style.border = Itoa(options.BorderWidth) \o "px " \o options.BorderStyle
                                    \o " " \o options.BorderColor
              /\ stderr = <<>>
        /\ ~MadeCall("SetBorder2") => Style.border = pre.style.border

C5_Witness ==
    /\ MadeCall("SetBorder2")
    /\ options.BorderColor = ""
    /\ Style.border = "2px dotted "

(***************************************************************************)
(* C6: when exactly one of BorderWidth and BorderStyle is set, the call    *)
(* writes the diagnostic to standard error, makes no border call (the      *)
(* border attribute is as before), and otherwise makes the same setter     *)
(* calls and returns the same widget as with the three border fields       *)
(* unset.                                                                  *)
(***************************************************************************)
NoBorder(o) == [o EXCEPT !.BorderWidth = 0, !.BorderStyle = "", !.BorderColor = ""]

C6_HalfBorderContinues ==
    (Called /\ HalfBorder(options)) =>
        /\ stderr = <<BorderError>>
        /\ ~MadeCall("SetBorder2")
        /\ Style.border = pre.style.border
        /\ Target = Exec(op, pre, NoBorder(options)).obj
        /\ calls = Exec(op, pre, NoBorder(options)).calls
        /\ MadeCall("SetFontSize")

C6_Witness ==
    /\ Called
    /\ options.BorderWidth = 2
    /\ options.BorderStyle = ""
    /\ stderr # <<>>
    /\ options.Color = "maroon"
    /\ Style.color = "maroon"

(***************************************************************************)
(* C7 (as claimed): the diagnostic is written exactly when one of          *)
(* BorderWidth and BorderStyle is set and the other is not; a BorderColor  *)
(* alone writes none.                                                      *)
(***************************************************************************)
C7_DiagnosticIffHalfBorder == Called => (stderr # <<>> <=> HalfBorder(options))

(***************************************************************************)
(* C7 (amended): the diagnostic is the only thing written to standard      *)
(* error, and it is written, once, exactly when at least one of            *)
(* BorderWidth, BorderStyle and BorderColor is set while BorderWidth and   *)
(* BorderStyle are not both set; so a BorderColor alone writes it, and     *)
(* three unset border fields write nothing.                                *)
(***************************************************************************)
C7_DiagnosticIffIncompleteBorder ==
    Called =>
        stderr =
            IF /\ options.BorderWidth # 0 \/ options.BorderStyle # "" \/ options.BorderColor # ""
               /\ ~(options.BorderWidth # 0 /\ options.BorderStyle # "")
            THEN <<BorderError>>
            ELSE <<>>

C7_Witness ==
    /\ Called
    /\ options.BorderWidth = 0
    /\ options.BorderStyle = ""
    /\ options.BorderColor # ""
    /\ stderr = <<BorderError>>

(***************************************************************************)
(* C8: MakeListBox and MakeTextBox with EnableNil make no SetEnabled call  *)
(* and leave the toolkit's default enabled state; with EnableTrue the      *)
(* widget reports enabled, with EnableFalse not enabled; whatever the      *)
(* other fields hold.                                                      *)
(***************************************************************************)
C8_EnableThreeState ==
    op \in {"MakeListBox", "MakeTextBox"} =>
        /\ options.Enable = EnableNil => ~MadeCall("SetEnabled") /\ widget.enabled = Fresh.enabled
        /\ options.Enable = EnableTrue => widget.enabled
        /\ options.Enable = EnableFalse => ~widget.enabled

C8_Witness ==
    /\ op = "MakeTextBox"
    /\ options.Enable = EnableFalse
    /\ ~widget.enabled
    /\ options.ReadOnly

(***************************************************************************)
(* C9: applying the same Options a second time in succession to the same   *)
(* target leaves it as the first application left it: a table cell after   *)
(* a second FormatTableCell, and the style of any configured widget or     *)
(* cell after a second setStyle.                                           *)
(***************************************************************************)
C9_Idempotent ==
    /\ repeat => table.cells[cell] = pre
    /\ Called => setStyle(Ctx(Target), options).obj = Target
    /\ op = "FormatTableCell" => FormatTableCell(Target, options).obj = Target

C9_Witness ==
    /\ repeat
    /\ options = AllOptions
    /\ table.cells[cell].style.color = "maroon"

(***************************************************************************)
(* C10 (as claimed): a FormatTableCell call whose Options leaves Color,    *)
(* Background, WhiteSpace, FontSize, ColSpan or RowSpan at "" or 0 leaves  *)
(* that attribute of the cell at the value it had before the call.         *)
(***************************************************************************)
C10_UnsetFieldKeepsPrevious ==
    op = "FormatTableCell" =>
        /\ options.Color = "" => Style.color = pre.style.color
        /\ options.Background = "" => Style.background = pre.style.background
        /\ options.WhiteSpace = "" => Style.whiteSpace = pre.style.whiteSpace
        /\ options.FontSize = "" => Style.fontSize = pre.style.fontSize
        /\ options.ColSpan = 0 => Target.colSpan = pre.colSpan
        /\ options.RowSpan = 0 => Target.rowSpan = pre.rowSpan

(***************************************************************************)
(* C10 (amended): the setters for Color, Background, WhiteSpace, FontSize, *)
(* ColSpan and RowSpan are called unconditionally, so a FormatTableCell    *)
(* call whose Options leaves one of them at "" or 0 puts that attribute of *)
(* the cell back to the toolkit's unset value ("" for the four style       *)
(* attributes, -1 for the spans), whatever it was before the call.         *)
(***************************************************************************)
C10_UnsetFieldResets ==
    op = "FormatTableCell" =>
        /\ options.Color = "" => Style.color = ""
        /\ options.Background = "" => Style.background = ""
        /\ options.WhiteSpace = "" => Style.whiteSpace = ""
        /\ options.FontSize = "" => Style.fontSize = ""
        /\ options.ColSpan = 0 => Target.colSpan = -1
        /\ options.RowSpan = 0 => Target.rowSpan = -1

C10_Witness ==
    /\ op = "FormatTableCell"
    /\ pre.style.color = "maroon"
    /\ pre.colSpan = 2
    /\ options.Color = ""
    /\ options.ColSpan = 0
    /\ Style.color = ""
    /\ Target.colSpan = -1

(***************************************************************************)
(* C11: MakePanel and MakeTabPanel with Layout natural, horizontal or      *)
(* vertical return a widget with that layout; with LayoutNil no layout is  *)
(* selected and the widget has the toolkit's default layout for its kind.  *)
(***************************************************************************)
C11_LayoutSelected ==
    op \in {"MakePanel", "MakeTabPanel"} =>
        /\ options.Layout = LayoutNatural => widget.layout = "natural"
        /\ options.Layout = LayoutHorizontal => widget.layout = "horizontal"
        /\ options.Layout = LayoutVertical => widget.layout = "vertical"
        /\ options.Layout = LayoutNil =>
              /\ ~MadeCall("SetLayout")
              /\ widget.layout = (IF op = "MakePanel" THEN NewPanel ELSE NewTabPanel).layout

C11_Witness ==
    /\ op = "MakePanel"
    /\ options.Layout = LayoutHorizontal
    /\ widget.layout = "horizontal"
    /\ options.CellPadding = 1

(***************************************************************************)
(* C12 (as claimed): MakeWindow always sets full width; the window's style *)
(* reports width 100% for every Options value.                             *)
(***************************************************************************)
C12_WindowFullWidth == op = "MakeWindow" => Style.width = "100%"

(***************************************************************************)
(* C13: padding is applied unconditionally.  After MakeTable, MakeWindow,  *)
(* MakePanel and MakeTabPanel the widget's cell padding is                 *)
(* options.CellPadding, 0 included; after FormatTableCell the cell style's *)
(* padding is the decimal text of options.CellPadding, "0" for 0.          *)
(***************************************************************************)
C13_PaddingAlways ==
    /\ op \in {"MakeTable", "MakeWindow", "MakePanel", "MakeTabPanel"} =>
          /\ MadeCall("SetCellPadding")
          /\ widget.cellPadding = options.CellPadding
    /\ op = "FormatTableCell" =>
          /\ MadeCall("SetPadding")
          /\ options.CellPadding = 0 => Style.padding = "0"
          /\ options.CellPadding = 1 => Style.padding = "1"
          /\ options.CellPadding = 10 => Style.padding = "10"
          /\ options.CellPadding \in {0, 1, 10}

C13_Witness ==
    /\ op = "FormatTableCell"
    /\ options.CellPadding = 0
    /\ pre.style.padding = "10"
    /\ Style.padding = "0"

(***************************************************************************)
(* C14: for MakeTable, MakeWindow, MakePanel, MakeTabPanel and             *)
(* FormatTableCell a non-empty HAlign (VAlign) is forwarded and the getter *)
(* then returns exactly that value; for an empty one no alignment call is  *)
(* made on that axis and the alignment stays what it was before.  Neither  *)
(* axis depends on the other's field.                                      *)
(***************************************************************************)
C14_AlignOnlyWhenSet ==
    op \in {"MakeTable", "MakeWindow", "MakePanel", "MakeTabPanel", "FormatTableCell"} =>
        /\ options.HAlign # "" => Target.hAlign = options.HAlign
        /\ options.HAlign = "" => ~MadeCall("SetHAlign") /\ Target.hAlign = pre.hAlign
        /\ options.VAlign # "" => Target.vAlign = options.VAlign
        /\ options.VAlign = "" => ~MadeCall("SetVAlign") /\ Target.vAlign = pre.vAlign
        /\ \A v \in {"", "bottom"} :
              Exec(op, pre, [options EXCEPT !.VAlign = v]).obj.hAlign = Target.hAlign
        /\ \A h \in {"", "right"} :
              Exec(op, pre, [options EXCEPT !.HAlign = h]).obj.vAlign = Target.vAlign

C14_Witness ==
    /\ op = "FormatTableCell"
    /\ options.HAlign = ""
    /\ options.VAlign = "bottom"
    /\ pre.hAlign = "right"
    /\ pre.vAlign = ""
    /\ Target.hAlign = "right"
    /\ Target.vAlign = "bottom"

(***************************************************************************)
(* C15 (as claimed): Rows, Cols, ColSpan and RowSpan are applied only when *)
(* non-zero.  A zero Rows or Cols leaves the text box's default, a zero    *)
(* Rows leaves the list box's default row count, a zero ColSpan or RowSpan *)
(* leaves the span at the toolkit's unset value, and a non-zero value is   *)
(* reported back unchanged.                                                *)
(***************************************************************************)
C15_ZeroLeavesDefault ==
    /\ op = "MakeTextBox" =>
          /\ widget.rows = IF options.Rows = 0 THEN pre.rows ELSE options.Rows
          /\ widget.cols = IF options.Cols = 0 THEN pre.cols ELSE options.Cols
    /\ op = "MakeListBox" =>
          widget.rows = IF options.Rows = 0 THEN pre.rows ELSE options.Rows
    /\ op = "FormatTableCell" =>
          /\ Target.colSpan = IF options.ColSpan = 0 THEN NewCellFmt.colSpan ELSE options.ColSpan
          /\ Target.rowSpan = IF options.RowSpan = 0 THEN NewCellFmt.rowSpan ELSE options.RowSpan

(***************************************************************************)
(* C15 (amended): MakeTextBox applies Rows and Cols only when non-zero; a  *)
(* zero value makes no call and leaves the text box's default.             *)
(* MakeListBox forwards Rows always: the list box reports options.Rows,    *)
(* also 0.  FormatTableCell forwards ColSpan and RowSpan always: 0 puts    *)
(* the span at the toolkit's unset value, whatever it was, and a span of 2 *)
(* or more is reported back unchanged.                                     *)
(***************************************************************************)
C15_ZeroLeavesDefaultButListBox ==
    /\ op = "MakeTextBox" =>
          /\ options.Rows = 0 => ~MadeCall("SetRows") /\ widget.rows = pre.rows
          /\ options.Rows # 0 => widget.rows = options.Rows
          /\ options.Cols = 0 => ~MadeCall("SetCols") /\ widget.cols = pre.cols
          /\ options.Cols # 0 => widget.cols = options.Cols
    /\ op = "MakeListBox" => MadeCall("SetRows") /\ widget.rows = options.Rows
    /\ op = "FormatTableCell" =>
          /\ MadeCall("SetColSpan") /\ MadeCall("SetRowSpan")
          /\ options.ColSpan = 0 => Target.colSpan = NewCellFmt.colSpan
          /\ options.ColSpan >= 2 => Target.colSpan = options.ColSpan
          /\ options.RowSpan = 0 => Target.rowSpan = NewCellFmt.rowSpan
          /\ options.RowSpan >= 2 => Target.rowSpan = options.RowSpan

C15_Witness ==
    /\ op = "FormatTableCell"
    /\ options.ColSpan = 0
    /\ pre.colSpan = 2
    /\ Target.colSpan = NewCellFmt.colSpan

(***************************************************************************)
(* C16: MakeListBox returns a list box whose values are the input in       *)
(* order, whose rows equal options.Rows (0 included), whose multi flag     *)
(* equals options.Multi and in which index 0 is selected whenever the      *)
(* input is not empty; with empty input no selection call is made.         *)
(***************************************************************************)
C16_ListBoxAsGiven ==
    op = "MakeListBox" =>
        /\ widget.values = pre.values
        /\ widget.rows = options.Rows
        /\ widget.multi = options.Multi
        /\ widget.values # <<>> => widget.selected = {0}
        /\ widget.values = <<>> => ~MadeCall("SetSelected") /\ widget.selected = {}

C16_Witness ==
    /\ op = "MakeListBox"
    /\ widget.values = <<>>
    /\ options.Rows = 0
    /\ options.Multi
    /\ widget.multi

(***************************************************************************)
(* C17: MakeTextBox always forwards ReadOnly.  The text box's text is the  *)
(* text argument and its read-only flag equals options.ReadOnly, true or   *)
(* false, whatever Enable and the other fields hold.                       *)
(***************************************************************************)
C17_TextBoxReadOnly ==
    op = "MakeTextBox" =>
        /\ MadeCall("SetReadOnly")
        /\ widget.text = pre.text
        /\ widget.readOnly = options.ReadOnly
        /\ \A e \in {EnableNil, EnableTrue, EnableFalse} :
              Exec(op, pre, [options EXCEPT !.Enable = e]).obj.readOnly = options.ReadOnly

C17_Witness ==
    /\ op = "MakeTextBox"
    /\ options.Enable = EnableFalse
    /\ ~options.ReadOnly
    /\ ~widget.readOnly
    /\ ~widget.enabled
    /\ widget.text = "text"

(***************************************************************************)
(* C18: AddLabelsToPanel appends one new label per text, in argument       *)
(* order, after the components the panel has: with k components before and *)
(* n texts the panel has k + n, the first k are unchanged and component    *)
(* k + i is a label with text i, styled as the options say.                *)
(* AddCompsToPanel appends the given components in order likewise, and     *)
(* leaves the panel unchanged when given none.                             *)
(***************************************************************************)
C18_PanelAppends ==
    /\ op \in {"AddLabelsToPanel", "AddCompsToPanel"} =>
          /\ [panel EXCEPT !.comps = pre.comps] = pre
          /\ Len(panel.comps) = Len(pre.comps) + Len(args.labelText) + Len(args.comps)
          /\ \A i \in DOMAIN pre.comps : panel.comps[i] = pre.comps[i]
    /\ op = "AddLabelsToPanel" =>
          \A i \in DOMAIN args.labelText :
              LET label == panel.comps[Len(pre.comps) + i]
              IN  /\ label.kind = "Label"
                  /\ label.text = args.labelText[i]
                  /\ label = MakeLabel(args.labelText[i], options).obj
    /\ op = "AddCompsToPanel" =>
          /\ \A i \in DOMAIN args.comps : panel.comps[Len(pre.comps) + i] = args.comps[i]
          /\ args.comps = <<>> => panel = pre /\ calls = <<>>

C18_Witness ==
    /\ op = "AddLabelsToPanel"
    /\ Len(pre.comps) = 1
    /\ pre.comps[1].kind = "Button"
    /\ args.labelText = <<"label 2", "label 1">>
    /\ options = AllOptions
    /\ panel.comps[2].text = "label 2"
    /\ panel.comps[3].text = "label 1"
    /\ panel.comps[3].style.color = "maroon"

(***************************************************************************)
(* C19: after GuiBuilder.SetEnabled(enable, comps...) every component      *)
(* passed reports Enabled() = enable, whatever it reported before; no      *)
(* component that was not passed is changed; with no components nothing    *)
(* changes.                                                                *)
(***************************************************************************)
C19_SetEnabledAll ==
    op = "SetEnabled" =>
        /\ DOMAIN held = DOMAIN pre
        /\ \A i \in DOMAIN held :
              IF \E j \in DOMAIN args.ids : args.ids[j] = i
              THEN held[i] = [pre[i] EXCEPT !.enabled = args.enable]
              ELSE held[i] = pre[i]
        /\ args.ids = <<>> => held = pre /\ calls = <<>>

C19_Witness ==
    /\ op = "SetEnabled"
    /\ args.ids = <<1, 2>>
    /\ args.enable
    /\ ~pre[1].enabled
    /\ pre[2].enabled
    /\ held[1].enabled
    /\ held[2].enabled

(***************************************************************************)
(* C20: the statements of setStyle are order-independent.  Border, width,  *)
(* height, color, background, white-space and font-size executed in any    *)
(* order on the same starting style and Options give the final style (and  *)
(* the diagnostics) that the order of the source gives.                    *)
(***************************************************************************)
C20_AnyOrderSameStyle ==
    (op = "setStyle" /\ done = StyleSteps) =>
        /\ widget.style = setStyle(Ctx(pre), options).obj.style
        /\ stderr = setStyle(Ctx(pre), options).stderr
        /\ [widget EXCEPT !.style = pre.style] = pre

C20_Witness ==
    /\ op = "setStyle"
    /\ done = StyleSteps
    /\ ~inOrder
    /\ pre.style.color = "maroon"
    /\ options.Color = ""
    /\ options.Background = "aqua"
    /\ options.BorderWidth = 2 /\ options.BorderStyle = ""
    /\ widget.style.color = ""
    /\ widget.style # pre.style

(***************************************************************************)
(* Make calls one after another, with FormatTableCell calls on the         *)
(* client's table in between.  Every make call constructs its widget with  *)
(* the toolkit's constructor; GuiBuilder has no fields and builder.go no   *)
(* package variables.                                                      *)
(***************************************************************************)
MakeNames ==
    {"MakeTable", "MakeListBox", "MakeTextBox", "MakeLabel", "MakeButton", "MakeWindow",
     "MakePanel", "MakeTabPanel"}

\* The Options values of the calls of SpecCalls.
CallOptions == {ZeroOptions, AllOptions}

\* What the constructor of the make function gives, for its arguments beside Options.
FreshFor(name, o) ==
    CASE name = "MakeTable" -> NewTable
      [] name = "MakeListBox" -> NewListBox(<<"hello", "world">>)
      [] name = "MakeTextBox" -> NewTextBox("text")
      [] name = "MakeLabel" -> NewLabel("text")
      [] name = "MakeButton" -> NewButton("text")
      [] name = "MakeWindow" -> NewWindow("name", "extension")
      [] name = "MakePanel" -> PanelFor(o)
      [] name = "MakeTabPanel" -> NewTabPanel

DoMakeNext ==
    /\ Len(made) + nfmt < MaxCalls
    /\ \E name \in MakeNames, o \in CallOptions :
        LET ctx == Exec(name, FreshFor(name, o), o)
        IN  /\ widget' = ctx.obj
            /\ op' = name
            /\ options' = o
            /\ pre' = FreshFor(name, o)
            /\ calls' = ctx.calls
            /\ stderr' = ctx.stderr
            /\ made' = Append(made, [op |-> name, options |-> o, widget |-> ctx.obj,
                                     at |-> Len(made) + nfmt + 1])
            /\ UNCHANGED <<table, cell, repeat, nfmt, panel, held, args, done, inOrder>>

DoFormatNext ==
    /\ Len(made) + nfmt < MaxCalls
    /\ \E rc \in Cells, o \in CallOptions :
        LET ctx == FormatTableCellAt(table, rc, o)
        IN  /\ table' = ctx.obj
            /\ op' = "FormatTableCell"
            /\ options' = o
            /\ cell' = rc
            /\ pre' = table.cells[rc]
            /\ calls' = ctx.calls
            /\ stderr' = ctx.stderr
            /\ repeat' = (op = "FormatTableCell" /\ rc = cell /\ o = options)
            /\ nfmt' = nfmt + 1
            /\ UNCHANGED <<widget, panel, held, args, done, inOrder, made>>

NextCalls == DoMakeNext \/ DoFormatNext

SpecCalls == Init /\ [][NextCalls]_vars

C22_OnlyAddressedCell ==
    [][(op' = "FormatTableCell" /\ nfmt' = nfmt + 1) =>
          /\ DOMAIN table'.cells = DOMAIN table.cells
          /\ \A rc \in DOMAIN table.cells \ {cell'} : table'.cells[rc] = table.cells[rc]
          /\ [table' EXCEPT !.cells = table.cells] = table
          /\ table'.cellPadding = table.cellPadding
          /\ table'.style = table.style]_vars

C22_Witness ==
    /\ op = "FormatTableCell"
    /\ nfmt = 2
    /\ cell = <<1, 2>>
    /\ options = AllOptions
    /\ table.cells[<<1, 1>>].style.padding = "10"
    /\ table.cells[<<1, 2>>].style.padding = "1"
    /\ table.cells[<<1, 2>>].colSpan = 2
    /\ table.cells[<<1, 1>>].colSpan = NewCellFmt.colSpan
    /\ table.cellPadding = 0

(***************************************************************************)
(* The two revisions side by side: the sizing statements of either         *)
(* revision applied to the client's style, a new one or one sized before.  *)
(***************************************************************************)
SizeInputs == {"", "1", "Full", "full", "FULL", "Fool"}

SizeOptions == {[ZeroOptions EXCEPT !.Width = w, !.Height = h] : w, h \in SizeInputs}

\* The style that is sized: the last call's, or a new cell formatter's.
SizeStart == IF op \in {"Sizing", "OldSizing"} THEN widget ELSE NewCellFmt

Sized(name, o, ctx) ==
    /\ widget' = ctx.obj
    /\ op' = name
    /\ options' = o
    /\ pre' = SizeStart
    /\ calls' = ctx.calls
    /\ stderr' = ctx.stderr
    /\ UNCHANGED <<table, cell, repeat, nfmt, panel, held, args, done, inOrder, made>>

DoSizing ==
    /\ op \in {"none", "Sizing", "OldSizing"}
    /\ \E o \in SizeOptions : Sized("Sizing", o, Sizing(Ctx(SizeStart), o))

DoOldSizing ==
    /\ op \in {"none", "Sizing", "OldSizing"}
    /\ \E o \in SizeOptions : Sized("OldSizing", o, OldSizing(Ctx(SizeStart), o))

NextSize == DoSizing \/ DoOldSizing

SpecSize == Init /\ [][NextSize]_vars

\* The width the current and the earlier revision give for the last call.
WidthNow == IF op = "Sizing" THEN widget.style.width
            ELSE Sizing(Ctx(pre), options).obj.style.width

WidthOld == IF op = "OldSizing" THEN widget.style.width
            ELSE OldSizing(Ctx(pre), options).obj.style.width

\* The current revision takes "Full" only, any other casing is a literal width.
ExactToken ==
    /\ options.Width = FullWidth => WidthNow = "100%"
    /\ options.Width \notin {"", FullWidth} => WidthNow = options.Width

(***************************************************************************)
(* C23 (as claimed): the current revision matches the token exactly, any   *)
(* other casing is forwarded as a literal width; the earlier revision      *)
(* matched it under case folding, so the two revisions give the same width *)
(* exactly for a Width that is empty, equal to "Full", or not equal to     *)
(* "Full" under case folding.                                              *)
(***************************************************************************)
C23_RevisionsAgree ==
    op \in {"Sizing", "OldSizing"} =>
        /\ ExactToken
        /\ (WidthNow = WidthOld) <=>
              \/ options.Width = ""
              \/ options.Width = "Full"
              \/ ~EqualFold(options.Width, "Full")

(***************************************************************************)
(* C23 (amended): as claimed for a Width that is not empty.  For an empty  *)
(* Width the revisions give the same width exactly when the style has no   *)
(* width yet: the current revision makes no call and keeps a width set     *)
(* before, the earlier one sets the empty width and so clears it.          *)
(***************************************************************************)
C23_RevisionsAgreeUnlessCleared ==
    op \in {"Sizing", "OldSizing"} =>
        /\ ExactToken
        /\ (WidthNow = WidthOld) <=>
              \/ options.Width = "" /\ pre.style.width = ""
              \/ options.Width = "Full"
              \/ options.Width # "" /\ ~EqualFold(options.Width, "Full")

C23_Witness ==
    /\ op = "Sizing"
    /\ options.Width = "full"
    /\ pre.style.width = "1"
    /\ WidthNow = "full"
    /\ WidthOld = "100%"

(***************************************************************************)
(* C24: a Layout value outside the four declared constants is treated     *)
(* like LayoutNil.  MakePanel returns the default panel it returns for     *)
(* LayoutNil, MakeTabPanel makes no SetLayout call, and in both the other  *)
(* options are applied and the call returns without a diagnostic.          *)
(***************************************************************************)
C24_UnknownLayoutLikeNil ==
    (/\ op \in {"MakePanel", "MakeTabPanel"}
     /\ options.Layout \notin {LayoutNil, LayoutNatural, LayoutHorizontal, LayoutVertical}) =>
        /\ widget = Exec(op, pre, [options EXCEPT !.Layout = LayoutNil]).obj
        /\ calls = Exec(op, pre, [options EXCEPT !.Layout = LayoutNil]).calls
        /\ op = "MakePanel" => pre = NewPanel
        /\ ~MadeCall("SetLayout")
        /\ widget.layout = (IF op = "MakePanel" THEN NewPanel ELSE NewTabPanel).layout
        /\ widget.cellPadding = options.CellPadding
        /\ options.HAlign # "" => widget.hAlign = options.HAlign
        /\ options.VAlign # "" => widget.vAlign = options.VAlign
        /\ widget.style.color = options.Color
        /\ stderr = <<>>

C24_Witness ==
    /\ op = "MakeTabPanel"
    /\ options.Layout = 7
    /\ options.CellPadding = 1
    /\ widget.cellPadding = 1
    /\ widget.style.color = "maroon"
    /\ widget.layout = NewTabPanel.layout
    /\ stderr = <<>>

====
